---------------------------- MODULE Spec2Model ----------------------------
(***************************************************************************)
(* NordicTrack treadmill integration: the three coordinators of the        *)
(* repository (sensor.py: ESPHome proxy GATT polling, sensor_polling.py:    *)
(* Bleak polling, sensor_direct_proxy.py: placeholder proxy polling), the   *)
(* sensor entities they write to, and the telemetry frame decoder.         *)
(*                                                                         *)
(* Conventions.  A Python Optional is a sequence of length <= 1: None is   *)
(* <<>> and a value v is <<v>>.  Speed and incline are kept in tenths of   *)
(* their unit (the float raw / 10.0 is represented by the integer raw, the *)
(* range tests compare against 10 times the limit).  Every action is one   *)
(* run of a coroutine between two suspension points (asyncio runs such a   *)
(* stretch without interleaving).                                          *)
(***************************************************************************)
EXTENDS Integers, Sequences, FiniteSets, TLC

VARIABLES
    variant,            \* which sensor platform is installed
    start_pc,           \* position of async_start
    stop_pc,            \* position of async_stop
    stop_calls,         \* history: the calls of async_stop so far
    esp_client,         \* self._esp_client: "None" or "client"
    subscribed,         \* the advertisement callback is registered with the bridge
    treadmill_address,  \* self._treadmill_address (Optional)
    cancel_callback,    \* self._cancel_callback: "None", "armed", "cancelled"
    is_connected,       \* self._is_connected
    char_handle,        \* self._char_handle (Optional)
    disconnect_callback,\* self._disconnect_callback: "None" or "unsub"
    pc,                 \* position of each _async_poll_treadmill execution
    connected,          \* per execution: the asyncio.Event `connected` is set
    readArg,            \* per execution: handle argument of the pending gatt read
    ble_session,        \* per execution: its BleakClient holds a connection
    orphanCb,           \* a connection-state callback of a finished wait is still registered
    native_value,       \* per sensor: _attr_native_value (Optional)
    attr_available,     \* per sensor: _attr_available ("unset" when the attribute is absent)
    previous_values,    \* self._previous_values (a dict: a function on the keys present)
    ev,                 \* history: how a poll returned in the last step ("step" when none
                        \* did), or that the last step was an advertisement with the
                        \* treadmill's name from another address than the cached one
    lastFrame,          \* history: the frame given to the last _parse_and_update
    writes,             \* history: the update_value calls of the last step, in order
    changed,            \* history: the fields the last _parse_and_update logged as changed
    interval_after_change, \* history: the timer's interval when the last poll that read a
                        \* frame with a changed field returned (0 when none has)
    handleFresh,        \* history: _char_handle was resolved after the last device connect request
    session_open,       \* history: a device connect was requested and neither has the
                        \* request failed, nor the bridge reported the link down, nor a
                        \* device disconnect been requested since
    loggedIn,           \* environment: the API session with the bridge is up
    connect_failures,   \* history: polls in a row that ended in a connect timeout or a
                        \* connect error (counted up to MaxFailures)
    escaped             \* history: an exception left _async_poll_treadmill

vars == <<variant, start_pc, stop_pc, stop_calls, esp_client, subscribed, treadmill_address,
          cancel_callback, is_connected, char_handle, disconnect_callback, pc,
          connected, readArg, ble_session, orphanCb, native_value, attr_available,
          previous_values, ev, lastFrame, writes, changed, interval_after_change,
          handleFresh, session_open,
          loggedIn, connect_failures, escaped>>

-----------------------------------------------------------------------------
(* Bounds of the model *)

\* executions of _async_poll_treadmill that may be in flight at once
MaxPolls == 2

\* frames are 0..MaxLen bytes long
MaxLen == 11

\* connect failures in a row are counted up to MaxFailures
MaxFailures == 3

\* async_stop is called at most MaxStops times
MaxStops == 2

-----------------------------------------------------------------------------
(* Constants of the program *)

None == <<>>
Some(x) == <<x>>

SENSOR_SPEED == "speed"
SENSOR_INCLINE == "incline"
SENSOR_DISTANCE == "distance"
SENSOR_TIME == "time"
SENSOR_CALORIES == "calories"
SENSOR_STATUS == "status"

SensorTypes == {SENSOR_SPEED, SENSOR_INCLINE, SENSOR_DISTANCE, SENSOR_TIME,
                SENSOR_CALORIES, SENSOR_STATUS}

TREADMILL_NAME == "I_TL"

CHAR_NOTIFY_1_UUID == "00001535-1412-efde-1523-785feabcd123"

\* first two bytes of a main telemetry frame
MSG_TYPE == 0
MSG_SUBTYPE == 18

\* shortest main telemetry frame
MIN_TELEMETRY_LEN == 10

\* speed = speed_raw / 10.0
TENTHS == 10

\* sanity limits, in mph and percent
SPEED_MAX == 20
INCLINE_MAX == 15

\* POLL_INTERVAL = timedelta(seconds=30)
POLL_INTERVAL == 30

Variants == {"proxy", "polling", "direct_proxy"}

Polls == 1..MaxPolls

-----------------------------------------------------------------------------
(* Frames *)

Bytes == 0..255

\* a variant of the 16-bit read with the bytes in big-endian order
U16BE(data, lo, hi) == data[lo + 1] * 256 + data[hi + 1]

\* (data[hi] << 8) | data[lo], data indexed from 0 as in Python
U16LE(data, lo, hi) == data[hi + 1] * 256 + data[lo + 1]

\* a frame of n bytes: header h0 h1, zeros, speed and incline little-endian
\* at bytes 4..7
MkFrame(n, h0, h1, sp, inc) ==
    LET full == <<h0, h1, 0, 0, sp % 256, sp \div 256, inc % 256, inc \div 256>>
    IN  [i \in 1..n |-> IF i <= 8 THEN full[i] ELSE 0]

Headers == {<<0, 18>>, <<254, 2>>, <<0, 19>>, <<1, 18>>}
SpeedRaws == {0, 50, 200, 201, 250, 256}
InclineRaws == {0, 30, 150, 151, 256}
FrameLens == {0, 1, 2, 9} \cup (10..MaxLen)

\* the frames the decoder is given: main telemetry headers with every
\* payload, the other headers with one
Frames ==
    {MkFrame(n, 0, 18, sp, inc) :
        n \in FrameLens, sp \in SpeedRaws, inc \in InclineRaws}
    \cup {MkFrame(n, h[1], h[2], 50, 30) : n \in FrameLens, h \in Headers}

\* the frames a characteristic read returns in the coordinator runs
ReadFrames == {MkFrame(2, 254, 2, 0, 0), MkFrame(10, 0, 18, 50, 30)}


-----------------------------------------------------------------------------
(* Sensor entities and the decoder *)

\* dict.get(key): None when the key is absent
Get(d, k) == IF k \in DOMAIN d THEN Some(d[k]) ELSE None

\* d[key] = value
Put(d, k, v) == [x \in (DOMAIN d) \cup {k} |-> IF x = k THEN v ELSE d[x]]

\* a variant of update_value that writes only a value the sensor does not
\* show yet
update_value_OnlyOnChange(st, k, v) ==
    IF st.native[k] = Some(v)
    THEN st
    ELSE [st EXCEPT !.native = [@ EXCEPT ![k] = Some(v)],
                    !.writes = Append(@, <<k, v>>)]

\* NordicTrackSensor.update_value on the sensor of type k: st carries the
\* sensors' values and the calls made so far
update_value(st, k, v) ==
    [st EXCEPT !.native = [@ EXCEPT ![k] = Some(v)],
               !.writes = Append(@, <<k, v>>)]

\* NordicTrackSensor.set_available
set_available(avail, k, flag) == [avail EXCEPT ![k] = flag]

\* NordicTrackSensor.available: getattr(self, "_attr_available", True)
available(avail, k) == IF avail[k] = "unset" THEN TRUE ELSE avail[k] = "True"

\* a variant of _update_sensor_availability that never demotes
UpdateSensorAvailability_OnlyTrue(avail, flag) ==
    IF flag = "True"
    THEN [k \in SensorTypes |-> set_available(avail, k, flag)[k]]
    ELSE avail

\* _update_sensor_availability: set_available on every sensor
UpdateSensorAvailability(avail, flag) ==
    [k \in SensorTypes |-> set_available(avail, k, flag)[k]]

\* a variant of the telemetry test without the length condition
IsMainTelemetry_NoLength(data) ==
    LET msg_type == data[1]
        msg_subtype == IF Len(data) > 1 THEN data[2] ELSE 0
    IN  msg_type = MSG_TYPE /\ msg_subtype = MSG_SUBTYPE

\* msg_type == 0x00 and msg_subtype == 0x12 and len(data) >= 10
IsMainTelemetry(data) ==
    LET msg_type == data[1]
        msg_subtype == IF Len(data) > 1 THEN data[2] ELSE 0
    IN  msg_type = MSG_TYPE /\ msg_subtype = MSG_SUBTYPE
        /\ Len(data) >= MIN_TELEMETRY_LEN

\* a variant of the change test made after the cache has been overwritten
Changed_AfterOverwrite(st, k, v) ==
    IF Get(Put(st.prev, k, v), k) # Some(v) THEN st.changed \cup {k} ELSE st.changed

\* `if self._previous_values.get(k) != v: _LOGGER.info(...)`: the fields
\* flagged as changed so far, the test being made on the cache as it is
\* before the assignment that follows
Changed(st, k, v) ==
    IF Get(st.prev, k) # Some(v) THEN st.changed \cup {k} ELSE st.changed

\* a variant of the speed sanity check without its upper limit
SpeedInRange_NoUpperLimit(speed) == 0 <= speed

\* 0 <= speed <= 20, speed in tenths
SpeedInRange(speed) == 0 <= speed /\ speed <= SPEED_MAX * TENTHS

\* 0 <= incline <= 15, incline in tenths
InclineInRange(incline) == 0 <= incline /\ incline <= INCLINE_MAX * TENTHS

\* "running" if speed > 0 else "idle"
StatusOf(speed) == IF speed > 0 THEN "running" ELSE "idle"

\* the speed block: bytes 4-5
ParseSpeed(st, data) ==
    IF Len(data) >= 6
    THEN LET speed == U16LE(data, 4, 5)
         IN  IF SpeedInRange(speed)
             THEN update_value([st EXCEPT !.changed = Changed(st, SENSOR_SPEED, speed),
                                          !.prev = Put(@, SENSOR_SPEED, speed),
                                          !.speed = Some(speed)],
                               SENSOR_SPEED, speed)
             ELSE [st EXCEPT !.speed = Some(speed)]
    ELSE st

\* a variant of the incline block that caches the value before the sanity
\* check
ParseIncline_CacheBeforeCheck(st, data) ==
    IF Len(data) >= 8
    THEN LET incline == U16LE(data, 6, 7)
             st1 == [st EXCEPT !.changed = Changed(st, SENSOR_INCLINE, incline),
                               !.prev = Put(@, SENSOR_INCLINE, incline)]
         IN  IF InclineInRange(incline)
             THEN update_value(st1, SENSOR_INCLINE, incline)
             ELSE st1
    ELSE st

\* the incline block: bytes 6-7
ParseIncline(st, data) ==
    IF Len(data) >= 8
    THEN LET incline == U16LE(data, 6, 7)
         IN  IF InclineInRange(incline)
             THEN update_value([st EXCEPT !.changed = Changed(st, SENSOR_INCLINE, incline),
                                          !.prev = Put(@, SENSOR_INCLINE, incline)],
                               SENSOR_INCLINE, incline)
             ELSE st
    ELSE st

\* the status block: reads the local `speed`, which is unbound (an
\* UnboundLocalError) when the speed block did not run
ParseStatus(st, data) ==
    IF st.speed = None
    THEN [st EXCEPT !.raised = TRUE]
    ELSE LET status == StatusOf(st.speed[1])
         IN  update_value([st EXCEPT !.changed = Changed(st, SENSOR_STATUS, status),
                                     !.prev = Put(@, SENSOR_STATUS, status)],
                          SENSOR_STATUS, status)

\* a variant of _parse_and_update without the `len(data) < 2` return:
\* data[0] raises IndexError on the empty frame
ParseAndUpdate_NoLengthGuard(prev, native, data) ==
    LET st0 == [prev |-> prev, native |-> native, writes |-> <<>>,
                changed |-> {}, speed |-> None, raised |-> FALSE]
    IN  IF Len(data) < 1
        THEN [st0 EXCEPT !.raised = TRUE]
        ELSE IF IsMainTelemetry(data)
             THEN ParseStatus(ParseIncline(ParseSpeed(st0, data), data), data)
             ELSE st0

\* a variant of _parse_and_update that also publishes bytes 8-9 as the
\* distance
ParseAndUpdate_WithDistance(prev, native, data) ==
    LET st0 == [prev |-> prev, native |-> native, writes |-> <<>>,
                changed |-> {}, speed |-> None, raised |-> FALSE]
    IN  IF Len(data) < 2
        THEN st0
        ELSE IF IsMainTelemetry(data)
             THEN update_value(
                      ParseStatus(ParseIncline(ParseSpeed(st0, data), data), data),
                      SENSOR_DISTANCE, U16LE(data, 8, 9))
             ELSE st0

\* _parse_and_update(data) from the cache prev and the sensors' values
\* native: the new cache and values, the update_value calls made, and
\* whether an exception was raised
ParseAndUpdate(prev, native, data) ==
    LET st0 == [prev |-> prev, native |-> native, writes |-> <<>>,
                changed |-> {}, speed |-> None, raised |-> FALSE]
    IN  IF Len(data) < 2
        THEN st0
        ELSE IF IsMainTelemetry(data)
             THEN ParseStatus(ParseIncline(ParseSpeed(st0, data), data), data)
             ELSE st0


-----------------------------------------------------------------------------
(* Construction *)

\* the state after async_setup_platform has built the sensors and the
\* coordinator (NordicTrackSensor.__init__, the coordinators' __init__)
Init ==
    /\ variant \in Variants
    /\ start_pc = "init"
    /\ stop_pc = "idle"
    /\ stop_calls = 0
    /\ esp_client = "None"
    /\ subscribed = FALSE
    /\ treadmill_address = None
    /\ cancel_callback = "None"
    /\ is_connected = FALSE
    /\ char_handle = None
    /\ disconnect_callback = "None"
    /\ pc = [p \in Polls |-> "idle"]
    /\ connected = [p \in Polls |-> FALSE]
    /\ readArg = [p \in Polls |-> None]
    /\ ble_session = [p \in Polls |-> FALSE]
    /\ orphanCb = FALSE
    /\ native_value = [k \in SensorTypes |-> None]
    /\ attr_available = [k \in SensorTypes |-> "unset"]
    /\ previous_values = <<>>
    /\ ev = "init"
    /\ lastFrame = <<>>
    /\ writes = <<>>
    /\ changed = {}
    /\ interval_after_change = 0
    /\ handleFresh = FALSE
    /\ session_open = FALSE
    /\ loggedIn = FALSE
    /\ connect_failures = 0
    /\ escaped = FALSE

\* groups of variables for UNCHANGED
clientVars == <<esp_client, subscribed, treadmill_address, loggedIn>>
linkVars == <<is_connected, char_handle, disconnect_callback, orphanCb, handleFresh, session_open,
              connect_failures>>
pollVars == <<pc, connected, readArg, ble_session>>
valueVars == <<native_value, previous_values, lastFrame, changed, interval_after_change>>
runVars == <<start_pc, stop_pc, stop_calls, cancel_callback>>

\* the interval of the timer async_track_time_interval has created: the
\* call is made once, with POLL_INTERVAL (0 while there is no timer)
TimerInterval == IF cancel_callback = "None" THEN 0 ELSE POLL_INTERVAL

\* the lowest free execution slot
FreeSlot(p) == pc[p] = "idle" /\ \A q \in Polls : q < p => pc[q] # "idle"

\* execution p is the one async_start awaits
IsFirstPoll(p) == start_pc = "first_poll" /\ p = 1

\* async_start after its awaited first poll has returned: sensor.py has
\* nothing left to do, the other two arm the interval timer
StartAfterFirstPoll ==
    /\ start_pc' = "done"
    /\ cancel_callback' = IF variant = "proxy" THEN cancel_callback ELSE "armed"

\* what the return of execution p means for async_start
PollReturned(p) ==
    IF IsFirstPoll(p)
    THEN StartAfterFirstPoll
    ELSE UNCHANGED <<start_pc, cancel_callback>>


\* an exception leaves execution p: when async_start awaits it, async_start
\* ends there
PollEscaped(p) ==
    /\ start_pc' = IF IsFirstPoll(p) THEN "failed" ELSE start_pc
    /\ UNCHANGED cancel_callback

-----------------------------------------------------------------------------
(* sensor.py and sensor_direct_proxy.py: async_start *)

\* the handler of `except Exception` in async_start
StartFailed ==
    /\ attr_available' = UpdateSensorAvailability(attr_available, "False")
    /\ start_pc' = "failed"
    /\ ev' = "step"

\* async_start up to `await self._esp_client.connect(login=True)`
StartProxy ==
    /\ variant \in {"proxy", "direct_proxy"}
    /\ start_pc = "init"
    /\ esp_client' = "client"
    /\ start_pc' = "login"
    /\ ev' = "step"
    /\ writes' = <<>>
    /\ UNCHANGED <<variant, stop_pc, stop_calls, cancel_callback, subscribed,
                   treadmill_address, loggedIn, linkVars, pollVars, valueVars,
                   attr_available, escaped>>

\* connect(login=True) returns; device_info is requested
LoginOk ==
    /\ start_pc = "login"
    /\ loggedIn' = TRUE
    /\ start_pc' = "device_info"
    /\ ev' = "step"
    /\ writes' = <<>>
    /\ UNCHANGED <<variant, stop_pc, stop_calls, cancel_callback, esp_client,
                   subscribed, treadmill_address, linkVars, pollVars,
                   valueVars, attr_available, escaped>>

\* connect(login=True) or device_info() raises
LoginFail ==
    /\ start_pc \in {"login", "device_info"}
    /\ StartFailed
    /\ loggedIn' = FALSE
    /\ writes' = <<>>
    /\ UNCHANGED <<variant, stop_pc, stop_calls, cancel_callback, esp_client,
                   subscribed, treadmill_address, linkVars, pollVars,
                   valueVars, escaped>>

\* device_info() returns; the advertisement callback is subscribed and the
\* scan sleep begins.  sensor_direct_proxy.py awaits the value subscribe
\* returns: with a client whose subscribe is a plain function that await
\* raises TypeError (awaitOk = FALSE)
DeviceInfoOk(awaitOk) ==
    /\ start_pc = "device_info"
    /\ subscribed' = TRUE
    /\ writes' = <<>>
    /\ IF variant = "proxy" \/ awaitOk
       THEN /\ start_pc' = "scan"
            /\ ev' = "step"
            /\ UNCHANGED attr_available
       ELSE StartFailed
    /\ UNCHANGED <<variant, stop_pc, stop_calls, cancel_callback, esp_client,
                   treadmill_address, loggedIn, linkVars, pollVars, valueVars,
                   escaped>>

\* a variant of the advertisement callback without the test that no address
\* is cached yet
on_advertisement_LastWins(name, address) ==
    /\ subscribed /\ loggedIn
    /\ treadmill_address' =
          IF name = TREADMILL_NAME THEN Some(address) ELSE treadmill_address
    /\ ev' = IF name = TREADMILL_NAME /\ treadmill_address # None
                 /\ treadmill_address # Some(address)
              THEN "adv_other_address" ELSE "step"
    /\ writes' = <<>>
    /\ UNCHANGED <<variant, runVars, esp_client, subscribed, loggedIn,
                   linkVars, pollVars, valueVars, attr_available, escaped>>

\* on_advertisement / on_bluetooth_le_advertisement, called by the client
\* for an advertisement the bridge forwards
on_advertisement(name, address) ==
    /\ subscribed /\ loggedIn
    /\ treadmill_address' =
          IF name = TREADMILL_NAME /\ treadmill_address = None
          THEN Some(address) ELSE treadmill_address
    /\ ev' = IF name = TREADMILL_NAME /\ treadmill_address # None
                 /\ treadmill_address # Some(address)
              THEN "adv_other_address" ELSE "step"
    /\ writes' = <<>>
    /\ UNCHANGED <<variant, runVars, esp_client, subscribed, loggedIn,
                   linkVars, pollVars, valueVars, attr_available, escaped>>

-----------------------------------------------------------------------------
(* sensor.py: _async_poll_treadmill *)

\* a variant of the entry test that looks at the client only
NotReady_ClientOnly == esp_client = "None"

\* `if not self._esp_client or not self._treadmill_address`
NotReady == esp_client = "None" \/ treadmill_address = None

\* `not self._char_handle`
NoHandle(h) == h = None \/ h = Some(0)

\* the call bluetooth_gatt_read(address, self._char_handle, timeout=10.0)
IssueRead(p) ==
    /\ pc' = [pc EXCEPT ![p] = "read"]
    /\ readArg' = [readArg EXCEPT ![p] = char_handle]

\* _async_poll_treadmill from its entry to its first await
ProxyPollEntry(p) ==
    IF NotReady
    THEN /\ ev' = "poll_not_ready"
         /\ UNCHANGED <<pc, connected, readArg, handleFresh, session_open>>
    ELSE IF ~is_connected
         THEN /\ pc' = [pc EXCEPT ![p] = "connect"]
              /\ connected' = [connected EXCEPT ![p] = FALSE]
              /\ handleFresh' = FALSE
              /\ session_open' = TRUE
              /\ ev' = "step"
              /\ UNCHANGED readArg
         ELSE /\ IssueRead(p)
              /\ ev' = "step"
              /\ UNCHANGED <<connected, handleFresh, session_open>>

\* a variant of the try statement that begins after the connect block
ProxyTrySites_AfterConnect == {"read", "parse"}

\* the sites of _async_poll_treadmill inside `try: ... except Exception`
ProxyTrySites == {"connect", "services", "read", "parse"}

\* the handler of `except Exception` in _async_poll_treadmill, or the
\* exception leaving the coroutine when the site is outside the try
ProxyRaise(p, site, event) ==
    /\ pc' = [pc EXCEPT ![p] = "idle"]
    /\ readArg' = [readArg EXCEPT ![p] = None]
    /\ ev' = event
    /\ IF site \in ProxyTrySites
       THEN /\ is_connected' = FALSE
            /\ char_handle' = None
            /\ attr_available' = UpdateSensorAvailability(attr_available, "False")
            /\ UNCHANGED escaped
       ELSE /\ escaped' = TRUE
            /\ UNCHANGED <<is_connected, char_handle, attr_available>>
    /\ IF site \in ProxyTrySites THEN PollReturned(p) ELSE PollEscaped(p)


\* a variant of the end of the scan that gives up when no treadmill was
\* found: async_start returns after the availability update
ScanDoneProxy_GiveUp ==
    /\ variant = "proxy"
    /\ start_pc = "scan"
    /\ attr_available' = IF treadmill_address = None
                         THEN UpdateSensorAvailability(attr_available, "False")
                         ELSE attr_available
    /\ cancel_callback' = IF treadmill_address = None THEN cancel_callback ELSE "armed"
    /\ ProxyPollEntry(1)
    /\ start_pc' = IF NotReady THEN "done" ELSE "first_poll"
    /\ orphanCb' = orphanCb
    /\ writes' = <<>>
    /\ UNCHANGED <<variant, ble_session, connect_failures, stop_pc, stop_calls,
                   clientVars, is_connected, char_handle, disconnect_callback,
                   valueVars, escaped>>

\* the end of the scan sleep in sensor.py: the availability update when
\* nothing was found, the interval timer, and the first poll up to its
\* first await
ScanDoneProxy ==
    /\ variant = "proxy"
    /\ start_pc = "scan"
    /\ attr_available' = IF treadmill_address = None
                         THEN UpdateSensorAvailability(attr_available, "False")
                         ELSE attr_available
    /\ cancel_callback' = "armed"
    /\ ProxyPollEntry(1)
    /\ start_pc' = IF NotReady THEN "done" ELSE "first_poll"
    /\ orphanCb' = orphanCb
    /\ writes' = <<>>
    /\ UNCHANGED <<variant, ble_session, connect_failures, stop_pc, stop_calls,
                   clientVars, is_connected, char_handle, disconnect_callback,
                   valueVars, escaped>>

\* async_track_time_interval calls _async_poll_treadmill(now) in sensor.py
TimerFireProxy(p) ==
    /\ variant = "proxy"
    /\ cancel_callback = "armed"
    /\ FreeSlot(p)
    /\ ProxyPollEntry(p)
    /\ writes' = <<>>
    /\ UNCHANGED <<variant, ble_session, connect_failures, runVars, clientVars,
                   is_connected, char_handle, disconnect_callback, orphanCb,
                   valueVars, attr_available, escaped>>

\* on_connection_state of execution p, called by the client while p awaits
\* the connect request or the `connected` event
on_connection_state(p, c) ==
    /\ pc[p] \in {"connect", "wait"}
    /\ loggedIn
    /\ is_connected' = c
    /\ session_open' = (session_open /\ c)
    /\ connected' = [connected EXCEPT ![p] = @ \/ c]
    /\ ev' = "step"
    /\ writes' = <<>>
    /\ UNCHANGED <<variant, connect_failures, runVars, clientVars, char_handle,
                   disconnect_callback, orphanCb, handleFresh, pc, readArg,
                   ble_session, valueVars, attr_available, escaped>>

\* on_connection_state of an execution that is past its wait: the callback
\* is still registered with the client
late_connection_state(c) ==
    /\ orphanCb
    /\ loggedIn
    /\ is_connected' = c
    /\ session_open' = (session_open /\ c)
    /\ ev' = "step"
    /\ writes' = <<>>
    /\ UNCHANGED <<variant, connect_failures, runVars, clientVars, char_handle,
                   disconnect_callback, orphanCb, handleFresh, pollVars,
                   valueVars, attr_available, escaped>>

\* bluetooth_device_connect returns the unsubscribe function; the wait for
\* `connected` begins
ConnectReturn(p) ==
    /\ pc[p] = "connect"
    /\ loggedIn
    /\ disconnect_callback' = "unsub"
    /\ pc' = [pc EXCEPT ![p] = "wait"]
    /\ ev' = "step"
    /\ writes' = <<>>
    /\ UNCHANGED <<variant, connect_failures, runVars, clientVars,
                   is_connected, char_handle, orphanCb, handleFresh,
                   session_open, connected, readArg, ble_session, valueVars,
                   attr_available, escaped>>

\* bluetooth_device_connect raises (timeout=30.0, connection error); the
\* client drops the callback of a request that failed
ConnectRaise(p) ==
    /\ pc[p] = "connect"
    /\ ProxyRaise(p, "connect", "poll_connect_error")
    /\ connect_failures' = IF connect_failures < MaxFailures
                            THEN connect_failures + 1 ELSE MaxFailures
    /\ writes' = <<>>
    /\ UNCHANGED <<variant, stop_pc, stop_calls, clientVars,
                   disconnect_callback, orphanCb, handleFresh, connected,
                   ble_session, valueVars>>
    /\ session_open' = FALSE

\* a variant of the timeout branch that returns without the availability
\* update
WaitTimeout_NoDemotion(p) ==
    /\ pc[p] = "wait"
    /\ ~connected[p]
    /\ pc' = [pc EXCEPT ![p] = "idle"]
    /\ orphanCb' = TRUE
    /\ ev' = "poll_connect_timeout"
    /\ PollReturned(p)
    /\ connect_failures' = IF connect_failures < MaxFailures
                            THEN connect_failures + 1 ELSE MaxFailures
    /\ writes' = <<>>
    /\ UNCHANGED <<variant, stop_pc, stop_calls, clientVars, is_connected,
                   char_handle, disconnect_callback, handleFresh, session_open,
                   connected, readArg, ble_session, valueVars, attr_available,
                   escaped>>

\* asyncio.wait_for(connected.wait(), timeout=15.0) times out
WaitTimeout(p) ==
    /\ pc[p] = "wait"
    /\ ~connected[p]
    /\ attr_available' = UpdateSensorAvailability(attr_available, "False")
    /\ pc' = [pc EXCEPT ![p] = "idle"]
    /\ orphanCb' = TRUE
    /\ ev' = "poll_connect_timeout"
    /\ PollReturned(p)
    /\ connect_failures' = IF connect_failures < MaxFailures
                            THEN connect_failures + 1 ELSE MaxFailures
    /\ writes' = <<>>
    /\ UNCHANGED <<variant, stop_pc, stop_calls, clientVars, is_connected,
                   char_handle, disconnect_callback, handleFresh, session_open,
                   connected, readArg, ble_session, valueVars, escaped>>

\* the wait returns: service discovery when no handle is cached, the read
\* otherwise
WaitDone(p) ==
    /\ pc[p] = "wait"
    /\ connected[p]
    /\ orphanCb' = TRUE
    /\ IF NoHandle(char_handle)
       THEN /\ pc' = [pc EXCEPT ![p] = "services"]
            /\ ev' = "step"
            /\ UNCHANGED readArg
       ELSE /\ IssueRead(p)
            /\ ev' = "step"
    /\ connect_failures' = 0
    /\ writes' = <<>>
    /\ UNCHANGED <<variant, runVars, clientVars, is_connected, char_handle,
                   disconnect_callback, handleFresh, session_open, connected,
                   ble_session, valueVars, attr_available, escaped>>


\* the same UUID as the bridge may spell it, and another characteristic
UUID_UPPER == "00001535-1412-EFDE-1523-785FEABCD123"
UUID_OTHER == "00001534-1412-efde-1523-785feabcd123"

\* str.lower() on the UUIDs of the model
Lower(u) == IF u = UUID_UPPER THEN CHAR_NOTIFY_1_UUID ELSE u

Char(u, h) == [uuid |-> u, handle |-> h]

\* the answers of bluetooth_gatt_get_services: a list of services, each a
\* list of characteristics
ServiceLists ==
    {<<>>,
     << <<Char(UUID_OTHER, 7)>> >>,
     << <<Char(UUID_OTHER, 7), Char(CHAR_NOTIFY_1_UUID, 1)>> >>,
     << <<Char(UUID_UPPER, 2)>>, <<Char(UUID_OTHER, 7)>> >>,
     << <<Char(CHAR_NOTIFY_1_UUID, 1), Char(CHAR_NOTIFY_1_UUID, 2)>>,
        <<Char(UUID_OTHER, 7)>> >>,
     << <<Char(CHAR_NOTIFY_1_UUID, 1)>>, <<Char(UUID_UPPER, 2)>> >>}

\* the inner loop: the first characteristic of the service with the UUID,
\* then break
FirstMatch(chars) ==
    LET hits == {i \in 1..Len(chars) :
                    Lower(chars[i].uuid) = Lower(CHAR_NOTIFY_1_UUID)}
    IN  IF hits = {} THEN None
        ELSE Some(chars[CHOOSE i \in hits : \A j \in hits : i <= j].handle)

\* the outer loop over services.services starting with self._char_handle = h:
\* the inner break does not leave it
RECURSIVE ResolveHandle(_, _)
ResolveHandle(h, services) ==
    IF services = <<>> THEN h
    ELSE LET m == FirstMatch(Head(services))
         IN  ResolveHandle(IF m = None THEN h ELSE m, Tail(services))

\* bluetooth_gatt_get_services returns: handle resolution, then the read,
\* or the poll ends when the characteristic was not found
ServicesReturn(p, services) ==
    /\ pc[p] = "services"
    /\ loggedIn
    /\ LET h == ResolveHandle(char_handle, services)
       IN  /\ char_handle' = h
           /\ handleFresh' = IF \E i \in 1..Len(services) :
                                    FirstMatch(services[i]) # None
                              THEN TRUE ELSE handleFresh
           /\ IF NoHandle(h)
              THEN /\ attr_available' =
                         UpdateSensorAvailability(attr_available, "False")
                   /\ pc' = [pc EXCEPT ![p] = "idle"]
                   /\ ev' = "poll_char_not_found"
                   /\ PollReturned(p)
                   /\ UNCHANGED readArg
              ELSE /\ pc' = [pc EXCEPT ![p] = "read"]
                   /\ readArg' = [readArg EXCEPT ![p] = h]
                   /\ ev' = "step"
                   /\ UNCHANGED <<attr_available, start_pc, cancel_callback>>
    /\ writes' = <<>>
    /\ UNCHANGED <<variant, connect_failures, stop_pc, stop_calls, clientVars,
                   is_connected, disconnect_callback, orphanCb, session_open,
                   connected, ble_session, valueVars, escaped>>

\* bluetooth_gatt_get_services raises
ServicesRaise(p) ==
    /\ pc[p] = "services"
    /\ ProxyRaise(p, "services", "poll_services_error")
    /\ writes' = <<>>
    /\ UNCHANGED <<variant, connect_failures, stop_pc, stop_calls, clientVars,
                   disconnect_callback, orphanCb, handleFresh, session_open,
                   connected, ble_session, valueVars>>

\* bluetooth_gatt_read returns data: _parse_and_update, then the sensors
\* become available.  A request built with handle None names no
\* characteristic and is never answered with data
ReadReturn(p, data) ==
    /\ pc[p] = "read"
    /\ loggedIn
    /\ readArg[p] # None
    /\ LET r == ParseAndUpdate(previous_values, native_value, data)
       IN  /\ previous_values' = r.prev
           /\ native_value' = r.native
           /\ writes' = r.writes
           /\ changed' = r.changed
           /\ lastFrame' = data
           /\ IF r.raised
              THEN ProxyRaise(p, "parse", "poll_parse_error")
              ELSE /\ attr_available' =
                         UpdateSensorAvailability(attr_available, "True")
                   /\ pc' = [pc EXCEPT ![p] = "idle"]
                   /\ readArg' = [readArg EXCEPT ![p] = None]
                   /\ ev' = "poll_ok"
                   /\ PollReturned(p)
                   /\ UNCHANGED <<is_connected, char_handle, escaped>>
           /\ interval_after_change' =
                 IF ~r.raised /\ r.changed # {}
                 THEN TimerInterval' ELSE interval_after_change
    /\ UNCHANGED <<variant, connect_failures, stop_pc, stop_calls, clientVars,
                   disconnect_callback, orphanCb, handleFresh, session_open,
                   connected, ble_session>>

\* bluetooth_gatt_read raises (timeout=10.0, GATT error, connection error)
ReadRaise(p) ==
    /\ pc[p] = "read"
    /\ ProxyRaise(p, "read", "poll_read_error")
    /\ writes' = <<>>
    /\ UNCHANGED <<variant, connect_failures, stop_pc, stop_calls, clientVars,
                   disconnect_callback, orphanCb, handleFresh, session_open,
                   connected, ble_session, valueVars>>


-----------------------------------------------------------------------------
(* sensor_direct_proxy.py: _async_poll_treadmill, which has no await *)

\* a variant of the placeholder poll that ends as sensor.py's successful
\* poll does, with the sensors available
DirectPoll_MarksAvailable ==
    /\ attr_available' = IF NotReady THEN attr_available
                         ELSE UpdateSensorAvailability(attr_available, "True")
    /\ ev' = IF NotReady THEN "poll_not_ready" ELSE "poll_placeholder"

DirectPoll ==
    /\ attr_available' = IF NotReady THEN attr_available
                         ELSE UpdateSensorAvailability(attr_available, "False")
    /\ ev' = IF NotReady THEN "poll_not_ready" ELSE "poll_placeholder"

\* the end of the scan sleep in sensor_direct_proxy.py: the first poll, then
\* the interval timer
ScanDoneDirect ==
    /\ variant = "direct_proxy"
    /\ start_pc = "scan"
    /\ DirectPoll
    /\ cancel_callback' = "armed"
    /\ start_pc' = "done"
    /\ writes' = <<>>
    /\ UNCHANGED <<variant, stop_pc, stop_calls, clientVars, linkVars,
                   pollVars, valueVars, escaped>>

TimerFireDirect ==
    /\ variant = "direct_proxy"
    /\ cancel_callback = "armed"
    /\ DirectPoll
    /\ writes' = <<>>
    /\ UNCHANGED <<variant, runVars, clientVars, linkVars, pollVars, valueVars,
                   escaped>>

-----------------------------------------------------------------------------
(* sensor_polling.py *)

\* the sites of _async_poll_treadmill inside its try statement
BleTrySites == {"lookup", "connect", "read", "parse", "exit"}

\* the handlers of `except asyncio.TimeoutError` and `except Exception`,
\* or the exception leaving the coroutine when the site is outside the try
BleRaise(p, site, event) ==
    /\ pc' = [pc EXCEPT ![p] = "idle"]
    /\ ev' = event
    /\ IF site \in BleTrySites
       THEN /\ attr_available' = UpdateSensorAvailability(attr_available, "False")
            /\ UNCHANGED escaped
            /\ PollReturned(p)
       ELSE /\ escaped' = TRUE
            /\ UNCHANGED attr_available
            /\ PollEscaped(p)

\* _async_poll_treadmill from its entry to its first await: the device
\* lookup (found or not), then a new BleakClient and its __aenter__
BlePollEntry(p, found) ==
    IF ~found
    THEN /\ attr_available' = UpdateSensorAvailability(attr_available, "False")
         /\ ev' = "poll_not_found"
         /\ UNCHANGED <<pc, ble_session>>
    ELSE /\ pc' = [pc EXCEPT ![p] = "ble_connect"]
         /\ ble_session' = [ble_session EXCEPT ![p] = FALSE]
         /\ ev' = "step"
         /\ UNCHANGED attr_available

\* async_start: the first poll; the interval timer is armed when it has
\* returned
StartPolling(found) ==
    /\ variant = "polling"
    /\ start_pc = "init"
    /\ BlePollEntry(1, found)
    /\ IF found
       THEN start_pc' = "first_poll" /\ UNCHANGED cancel_callback
       ELSE start_pc' = "done" /\ cancel_callback' = "armed"
    /\ writes' = <<>>
    /\ UNCHANGED <<variant, stop_pc, stop_calls, clientVars, linkVars,
                   connected, readArg, valueVars, escaped>>

TimerFirePolling(p, found) ==
    /\ variant = "polling"
    /\ cancel_callback = "armed"
    /\ FreeSlot(p)
    /\ BlePollEntry(p, found)
    /\ writes' = <<>>
    /\ UNCHANGED <<variant, runVars, clientVars, linkVars, connected, readArg,
                   valueVars, escaped>>

\* __aenter__ returns; client.is_connected is isconn: the read is
\* requested, or the poll returns through __aexit__
BleConnected(p, isconn) ==
    /\ pc[p] = "ble_connect"
    /\ ble_session' = [ble_session EXCEPT ![p] = isconn]
    /\ IF isconn
       THEN /\ pc' = [pc EXCEPT ![p] = "ble_read"]
            /\ ev' = "step"
            /\ UNCHANGED attr_available
       ELSE /\ attr_available' = UpdateSensorAvailability(attr_available, "False")
            /\ pc' = [pc EXCEPT ![p] = "ble_exit_return"]
            /\ ev' = "step"
    /\ writes' = <<>>
    /\ UNCHANGED <<variant, runVars, clientVars, linkVars, connected, readArg,
                   valueVars, escaped>>

\* __aenter__ raises: asyncio.TimeoutError (timeout) or another exception
BleConnectRaise(p, timeout) ==
    /\ pc[p] = "ble_connect"
    /\ BleRaise(p, "connect",
                IF timeout THEN "poll_connect_timeout" ELSE "poll_connect_error")
    /\ writes' = <<>>
    /\ UNCHANGED <<variant, stop_pc, stop_calls, clientVars, linkVars,
                   connected, readArg, ble_session, valueVars>>

\* read_gatt_char returns data: _parse_and_update, the sensors become
\* available, then __aexit__
BleReadReturn(p, data) ==
    /\ pc[p] = "ble_read"
    /\ LET r == ParseAndUpdate(previous_values, native_value, data)
       IN  /\ previous_values' = r.prev
           /\ native_value' = r.native
           /\ writes' = r.writes
           /\ changed' = r.changed
           /\ lastFrame' = data
           /\ IF r.raised
              THEN /\ pc' = [pc EXCEPT ![p] = "ble_exit_raise"]
                   /\ ev' = "step"
                   /\ UNCHANGED attr_available
              ELSE /\ attr_available' =
                         UpdateSensorAvailability(attr_available, "True")
                   /\ pc' = [pc EXCEPT ![p] = "ble_exit_read"]
                   /\ ev' = "step"
    /\ UNCHANGED <<variant, runVars, clientVars, linkVars, connected, readArg,
                   ble_session, interval_after_change, escaped>>

\* a variant of the failing read without the `async with`: the exception
\* goes to the handler and the client is left as it is
BleReadRaise_NoWith(p) ==
    /\ pc[p] = "ble_read"
    /\ BleRaise(p, "read", "poll_read_error")
    /\ writes' = <<>>
    /\ UNCHANGED <<variant, stop_pc, stop_calls, clientVars, linkVars,
                   connected, readArg, ble_session, valueVars>>

\* read_gatt_char raises: __aexit__ runs before the handler does
BleReadRaise(p) ==
    /\ pc[p] = "ble_read"
    /\ pc' = [pc EXCEPT ![p] = "ble_exit_raise"]
    /\ ev' = "step"
    /\ writes' = <<>>
    /\ UNCHANGED <<variant, runVars, clientVars, linkVars, connected, readArg,
                   ble_session, valueVars, attr_available, escaped>>

\* __aexit__ (the disconnect) returns: the poll returns, or the exception
\* raised inside the with block reaches the handler
BleExit(p) ==
    /\ pc[p] \in {"ble_exit_return", "ble_exit_read", "ble_exit_raise"}
    /\ IF pc[p] = "ble_exit_raise"
       THEN BleRaise(p, "read", "poll_read_error")
       ELSE /\ pc' = [pc EXCEPT ![p] = "idle"]
            /\ ev' = IF pc[p] = "ble_exit_read" THEN "poll_ok"
                     ELSE "poll_not_connected"
            /\ PollReturned(p)
            /\ UNCHANGED <<attr_available, escaped>>
    /\ interval_after_change' =
          IF pc[p] = "ble_exit_read" /\ changed # {}
          THEN TimerInterval' ELSE interval_after_change
    /\ ble_session' = [ble_session EXCEPT ![p] = FALSE]
    /\ writes' = <<>>
    /\ UNCHANGED <<variant, stop_pc, stop_calls, clientVars, linkVars,
                   connected, readArg, native_value, previous_values,
                   lastFrame, changed>>

\* __aexit__ itself raises: the disconnect has failed, and whether the link
\* is down is not known
BleExitRaise(p) ==
    /\ pc[p] \in {"ble_exit_return", "ble_exit_read", "ble_exit_raise"}
    /\ BleRaise(p, "exit",
                IF pc[p] = "ble_exit_read" THEN "poll_exit_error_after_read"
                ELSE "poll_exit_error")
    /\ \E down \in BOOLEAN :
          ble_session' = [ble_session EXCEPT ![p] = @ /\ ~down]
    /\ writes' = <<>>
    /\ UNCHANGED <<variant, stop_pc, stop_calls, clientVars, linkVars,
                   connected, readArg, valueVars>>


-----------------------------------------------------------------------------
(* async_stop *)

\* async_stop up to its first await, called for the first time or again
\* after the previous call has returned: the timer is cancelled; sensor.py
\* requests the device disconnect when it holds a connection, the two proxy
\* coordinators disconnect the client
StopBegin ==
    /\ start_pc \in {"done", "failed"}
    /\ stop_pc \in {"idle", "done"}
    /\ stop_calls < MaxStops
    /\ stop_calls' = stop_calls + 1
    /\ cancel_callback' = IF cancel_callback = "None" THEN "None" ELSE "cancelled"
    /\ stop_pc' =
          IF variant = "proxy" /\ is_connected /\ disconnect_callback # "None"
          THEN "dev_disconnect"
          ELSE IF variant # "polling" /\ esp_client # "None"
               THEN "client_disconnect"
               ELSE "done"
    /\ ev' = "step"
    /\ writes' = <<>>
    /\ UNCHANGED <<variant, start_pc, clientVars, linkVars, pollVars,
                   valueVars, attr_available, escaped>>

\* bluetooth_device_disconnect returns and self._disconnect_callback() is
\* called (ok), or it raises and the bare except passes; then the client
\* disconnect is requested
StopDeviceDisconnect(ok) ==
    /\ stop_pc = "dev_disconnect"
    /\ stop_pc' = "client_disconnect"
    /\ session_open' = FALSE
    /\ ev' = "step"
    /\ writes' = <<>>
    /\ UNCHANGED <<variant, start_pc, stop_calls, cancel_callback, clientVars,
                   is_connected, char_handle, disconnect_callback, orphanCb,
                   handleFresh, connect_failures, pollVars, valueVars,
                   attr_available, escaped>>

\* self._esp_client.disconnect() returns (ok) or raises: the session with
\* the bridge is over.  A client without a session has no request to send
\* and returns
StopClientDisconnect(ok) ==
    /\ stop_pc = "client_disconnect"
    /\ ok \/ loggedIn
    /\ stop_pc' = IF ok THEN "done" ELSE "raised"
    /\ loggedIn' = FALSE
    /\ subscribed' = FALSE
    /\ ev' = "step"
    /\ writes' = <<>>
    /\ UNCHANGED <<variant, start_pc, stop_calls, cancel_callback, esp_client,
                   treadmill_address, linkVars, pollVars, valueVars,
                   attr_available, escaped>>

-----------------------------------------------------------------------------
(* The coordinators *)

AdvNames == {TREADMILL_NAME, "other"}
Addresses == {"DC:E3:FA:CF:00:91", "DC:E3:FA:CF:00:92"}

\* async_track_time_interval fires: a new execution of
\* _async_poll_treadmill begins
TimerStep ==
    \/ \E p \in Polls : TimerFireProxy(p)
    \/ TimerFireDirect
    \/ \E p \in Polls, found \in BOOLEAN : TimerFirePolling(p, found)

\* every other step: async_start, the client's callbacks, the answers to the
\* requests in flight, async_stop
OtherStep ==
    \/ StartProxy
    \/ LoginOk
    \/ LoginFail
    \/ \E awaitOk \in BOOLEAN : DeviceInfoOk(awaitOk)
    \/ \E name \in AdvNames, address \in Addresses : on_advertisement(name, address)
    \/ ScanDoneProxy
    \/ \E p \in Polls, c \in BOOLEAN : on_connection_state(p, c)
    \/ \E c \in BOOLEAN : late_connection_state(c)
    \/ \E p \in Polls : ConnectReturn(p)
    \/ \E p \in Polls : ConnectRaise(p)
    \/ \E p \in Polls : WaitTimeout(p)
    \/ \E p \in Polls : WaitDone(p)
    \/ \E p \in Polls, services \in ServiceLists : ServicesReturn(p, services)
    \/ \E p \in Polls : ServicesRaise(p)
    \/ \E p \in Polls, data \in ReadFrames : ReadReturn(p, data)
    \/ \E p \in Polls : ReadRaise(p)
    \/ ScanDoneDirect
    \/ \E found \in BOOLEAN : StartPolling(found)
    \/ \E p \in Polls, isconn \in BOOLEAN : BleConnected(p, isconn)
    \/ \E p \in Polls, timeout \in BOOLEAN : BleConnectRaise(p, timeout)
    \/ \E p \in Polls, data \in ReadFrames : BleReadReturn(p, data)
    \/ \E p \in Polls : BleReadRaise(p)
    \/ \E p \in Polls : BleExit(p)
    \/ \E p \in Polls : BleExitRaise(p)
    \/ StopBegin
    \/ \E ok \in BOOLEAN : StopDeviceDisconnect(ok)
    \/ \E ok \in BOOLEAN : StopClientDisconnect(ok)

Next == TimerStep \/ OtherStep

Spec == Init /\ [][Next]_vars

\* the runs in which the timer happens to fire only while no poll is in
\* flight
SerialTimerStep == (\A p \in Polls : pc[p] = "idle") /\ TimerStep

NextSerial == SerialTimerStep \/ OtherStep

SpecSerial == Init /\ [][NextSerial]_vars

-----------------------------------------------------------------------------
(* The decoder on its own: _parse_and_update called with any frame *)

parse_and_update(data) ==
    /\ LET r == ParseAndUpdate(previous_values, native_value, data)
       IN  /\ previous_values' = r.prev
           /\ native_value' = r.native
           /\ writes' = r.writes
           /\ changed' = r.changed
           /\ ev' = IF r.raised THEN "parse_raised" ELSE "parse"
    /\ lastFrame' = data
    /\ UNCHANGED <<variant, runVars, clientVars, linkVars, pollVars,
                   attr_available, interval_after_change, escaped>>

NextParse == \E data \in Frames : parse_and_update(data)

SpecParse == Init /\ [][NextParse]_vars


-----------------------------------------------------------------------------
(* Vocabulary of the properties *)

\* the values of ev with which an execution of _async_poll_treadmill returns
PollReturnEvents ==
    {"poll_not_ready", "poll_connect_timeout", "poll_char_not_found", "poll_ok",
     "poll_connect_error", "poll_services_error", "poll_read_error",
     "poll_parse_error", "poll_not_found", "poll_not_connected",
     "poll_exit_error", "poll_exit_error_after_read", "poll_placeholder"}

\* returns after an exception was raised inside the poll
PollErrorEvents ==
    {"poll_connect_error", "poll_services_error", "poll_read_error",
     "poll_parse_error", "poll_exit_error", "poll_exit_error_after_read"}

AllAvailable == \A k \in SensorTypes : available(attr_available, k)
NoneAvailable == \A k \in SensorTypes : ~available(attr_available, k)

InFlight == {p \in Polls : pc[p] # "idle"}

\* the value a sensor shows, -1 when it has none
Shown(k) == IF native_value[k] = None THEN -1 ELSE native_value[k][1]

-----------------------------------------------------------------------------
(* C1: at most one execution of _async_poll_treadmill of the proxy
   coordinator is in flight at any time *)
C1_OnePollInFlight ==
    variant = "proxy" => Cardinality(InFlight) <= 1

(* C2: bluetooth_gatt_read is never called with an unresolved (None)
   _char_handle *)
C2_ReadHasHandle ==
    \A p \in Polls : pc[p] = "read" => readArg[p] # None

(* C3: whenever a read is issued, the handle it uses was resolved by
   bluetooth_gatt_get_services after the most recent
   bluetooth_device_connect request *)
C3_ReadUsesFreshHandle ==
    [][\A p \in Polls :
          (pc[p] # "read" /\ pc'[p] = "read" /\ readArg'[p] # None)
              => handleFresh']_vars


(* C4 as stated: when an execution of _async_poll_treadmill of sensor.py or
   sensor_polling.py has returned (no other poll having run meanwhile), the
   sensors are available iff that execution read a frame *)
C4_AvailableIffFrameRead ==
    (variant \in {"proxy", "polling"} /\ ev \in PollReturnEvents) =>
        IF ev \in {"poll_ok", "poll_exit_error_after_read"}
        THEN AllAvailable ELSE NoneAvailable

(* C4 amended: when an execution of _async_poll_treadmill of sensor.py or
   sensor_polling.py has returned, the sensors are available iff that
   execution read a frame and raised nothing before it returned (the
   disconnect that ends a Bleak poll included), whatever the earlier polls
   did, provided no other poll ran while it was in flight; an early return
   for a missing client or address leaves them unavailable *)
C4_AvailableIffPollSucceeded ==
    (variant \in {"proxy", "polling"} /\ ev \in PollReturnEvents) =>
        IF ev = "poll_ok" THEN AllAvailable ELSE NoneAvailable

\* a connect timeout after an earlier poll had read a frame
C4_Witness ==
    /\ variant = "proxy"
    /\ ev = "poll_connect_timeout"
    /\ lastFrame # <<>>
    /\ NoneAvailable

\* the update_value calls of the last step on the sensor of type k
WritesTo(k) == {i \in 1..Len(writes) : writes[i][1] = k}

(* C5: after any sequence of frames the speed sensor is unset or within
   0..200 tenths of a mph and the incline sensor unset or within 0..150
   tenths of a percent; a main telemetry frame whose decoded value is out of
   range leaves that sensor and its cache entry as they were, publishes
   nothing for it, and no exception is raised *)
C5_OutOfRangeDiscarded ==
    /\ [](/\ Shown(SENSOR_SPEED) \in {-1} \cup (0..200)
          /\ Shown(SENSOR_INCLINE) \in {-1} \cup (0..150)
          /\ ev # "parse_raised")
    /\ [][LET d == lastFrame'
          IN  (ev' \in {"parse", "parse_raised"} /\ Len(d) >= 10
               /\ d[1] = 0 /\ d[2] = 18) =>
                /\ (d[5] + 256 * d[6] > 200 =>
                      /\ native_value'[SENSOR_SPEED] = native_value[SENSOR_SPEED]
                      /\ Get(previous_values', SENSOR_SPEED)
                            = Get(previous_values, SENSOR_SPEED)
                      /\ WritesTo(SENSOR_SPEED)' = {})
                /\ (d[7] + 256 * d[8] > 150 =>
                      /\ native_value'[SENSOR_INCLINE] = native_value[SENSOR_INCLINE]
                      /\ Get(previous_values', SENSOR_INCLINE)
                            = Get(previous_values, SENSOR_INCLINE)
                      /\ WritesTo(SENSOR_INCLINE)' = {})]_vars

\* the 25.0 mph frame was decoded while the speed sensor showed 5.0 mph
C5_Witness ==
    /\ ev = "parse"
    /\ lastFrame = <<0, 18, 0, 0, 250, 0, 30, 0, 0, 0>>
    /\ native_value[SENSOR_SPEED] = Some(50)
    /\ Get(previous_values, SENSOR_SPEED) = Some(50)

(* C6: after any sequence of frames the published status is "running" iff
   the published speed is greater than 0 *)
C6_StatusFromValidatedSpeed ==
    (native_value[SENSOR_STATUS] = Some("running")) <=> (Shown(SENSOR_SPEED) > 0)

(* C7: for a frame b with b[0] = 0x00, b[1] = 0x12 and at least 10 bytes,
   _parse_and_update publishes speed_raw = b[4] + 256*b[5] (in tenths) iff
   it is within 0..200, incline_raw = b[6] + 256*b[7] iff it is within
   0..150, and the status "running" iff speed_raw > 0, in this order and
   nothing else; 00 12 00 00 32 00 1E 00 00 00 gives 5.0, 3.0, running *)
C7_DecodeMainTelemetry ==
    /\ (ev \in {"parse", "parse_raised"} /\ Len(lastFrame) >= 10
        /\ lastFrame[1] = 0 /\ lastFrame[2] = 18) =>
          LET speed_raw == lastFrame[5] + 256 * lastFrame[6]
              incline_raw == lastFrame[7] + 256 * lastFrame[8]
              status == IF speed_raw > 0 THEN "running" ELSE "idle"
          IN  /\ ev = "parse"
              /\ writes =
                    (IF 0 <= speed_raw /\ speed_raw <= 200
                     THEN << <<SENSOR_SPEED, speed_raw>> >> ELSE <<>>)
                    \o (IF 0 <= incline_raw /\ incline_raw <= 150
                        THEN << <<SENSOR_INCLINE, incline_raw>> >> ELSE <<>>)
                    \o << <<SENSOR_STATUS, status>> >>
              /\ (speed_raw <= 200 => native_value[SENSOR_SPEED] = Some(speed_raw))
              /\ (incline_raw <= 150 =>
                    native_value[SENSOR_INCLINE] = Some(incline_raw))
              /\ native_value[SENSOR_STATUS] = Some(status)
    /\ (ev = "parse" /\ lastFrame = <<0, 18, 0, 0, 50, 0, 30, 0, 0, 0>>) =>
          /\ native_value[SENSOR_SPEED] = Some(50)
          /\ native_value[SENSOR_INCLINE] = Some(30)
          /\ native_value[SENSOR_STATUS] = Some("running")

\* the end-to-end example frame was decoded
C7_Witness ==
    /\ ev = "parse"
    /\ lastFrame = <<0, 18, 0, 0, 50, 0, 30, 0, 0, 0>>
    /\ writes = << <<SENSOR_SPEED, 50>>, <<SENSOR_INCLINE, 30>>,
                   <<SENSOR_STATUS, "running">> >>

\* the ways a poll of sensor.py or sensor_polling.py fails before it has
\* read a frame
FailedPollEvents ==
    {"poll_not_ready", "poll_not_found", "poll_connect_timeout",
     "poll_not_connected", "poll_char_not_found", "poll_connect_error",
     "poll_services_error", "poll_read_error"}

(* C8: the step in which a poll of sensor.py or sensor_polling.py takes a
   failure branch (address not found, connect timeout, client not connected,
   characteristic not found, exception in connect, discovery or read) leaves
   the sensors unavailable, and the step in which the failed poll returns
   leaves every sensor value and every entry of _previous_values as it was;
   values and cache change only in a step that decoded a frame *)
C8_FailedPollKeepsValues ==
    [][/\ (variant \in {"proxy", "polling"}
           /\ ev' \in FailedPollEvents \ {"poll_not_connected"}) =>
              NoneAvailable'
       /\ (\A p \in Polls :
              (pc[p] # "ble_exit_return" /\ pc'[p] = "ble_exit_return") =>
                  NoneAvailable')
       /\ (ev' \in FailedPollEvents) =>
              /\ native_value' = native_value
              /\ previous_values' = previous_values
       /\ (native_value' # native_value \/ previous_values' # previous_values) =>
              (writes' # <<>> /\ ev' \notin FailedPollEvents)]_vars

\* a read error after an earlier poll had published 5.0 mph
C8_Witness ==
    /\ variant = "proxy"
    /\ ev = "poll_read_error"
    /\ native_value[SENSOR_SPEED] = Some(50)
    /\ Get(previous_values, SENSOR_SPEED) = Some(50)
    /\ NoneAvailable

(* C9: no exception leaves _async_poll_treadmill; a poll that ended in an
   exception or a timeout leaves the sensors unavailable, its slot free and,
   unless async_stop has run, the interval timer armed *)
C9_ErrorsCaught ==
    /\ ~escaped
    /\ start_pc # "failed" \/ variant # "polling"
    /\ (ev \in PollErrorEvents \cup {"poll_connect_timeout"}) =>
          /\ NoneAvailable
          /\ \E p \in Polls : pc[p] = "idle"
          /\ stop_pc = "idle" => cancel_callback = "armed"

\* service discovery raised and the timer is still armed
C9_Witness ==
    /\ ev = "poll_services_error"
    /\ NoneAvailable
    /\ cancel_callback = "armed"
    /\ ~escaped

(* C10: after async_start has failed (the proxy could not be reached or
   logged in to) the interval timer is armed, so that a later poll retries *)
C10_RetryAfterStartFailure ==
    (start_pc = "failed" /\ stop_pc = "idle") => cancel_callback = "armed"

(* C11: once _treadmill_address has been set, no step changes it: an
   advertisement with the treadmill's name and another address leaves the
   cached address as it was (first match wins) *)
C11_FirstAddressWins ==
    [][treadmill_address # None => treadmill_address' = treadmill_address]_vars

\* an advertisement named I_TL from address ..:92 was delivered while ..:91
\* was cached, and ..:91 is still cached
C11_Witness ==
    /\ ev = "adv_other_address"
    /\ treadmill_address = Some("DC:E3:FA:CF:00:91")

(* C12: when three polls in a row have ended in a failed connect attempt
   (connect timeout or connect error) the cached address has been reset to
   unknown, so that the next poll goes through rediscovery *)
C12_AddressInvalidatedAfterThreeFailures ==
    (variant = "proxy" /\ connect_failures >= 3) => treadmill_address = None

(* C13: after a poll of the proxy coordinator that ended in a connect
   timeout or a connect error, _char_handle is None *)
C13_ConnectFailureResetsHandle ==
    (variant = "proxy" /\ ev \in {"poll_connect_timeout", "poll_connect_error"})
        => char_handle = None

(* C14: when a poll has just ended because service discovery failed or the
   characteristic was not found, the cached handle is None and the step
   that follows issues no read: the next poll has to go through service
   discovery first *)
C14_RediscoveryAfterDiscoveryFailure ==
    [][(ev \in {"poll_char_not_found", "poll_services_error"}) =>
            /\ char_handle = None
            /\ \A p \in Polls : ~(pc[p] # "read" /\ pc'[p] = "read")]_vars

\* a frame of at least 2 bytes that is not 00 12 with at least 10 bytes
Unrecognized(data) ==
    Len(data) >= 2 /\ ~(data[1] = 0 /\ data[2] = 18 /\ Len(data) >= 10)

(* C15: in every reachable state, _parse_and_update of any unrecognized
   frame publishes nothing, leaves the sensors and _previous_values as they
   are and raises nothing; and the step in which a poll of the proxy
   coordinator has read such a frame ends the poll normally with the
   sensors available and _is_connected and _char_handle as they were *)
C15_UnknownFrameSkipped ==
    /\ [](\A data \in Frames :
            Unrecognized(data) =>
                LET r == ParseAndUpdate(previous_values, native_value, data)
                IN  /\ r.writes = <<>>
                    /\ r.prev = previous_values
                    /\ r.native = native_value
                    /\ ~r.raised)
    /\ [][(variant = "proxy" /\ ev' \in {"poll_ok", "poll_parse_error"}
           /\ Unrecognized(lastFrame')) =>
              /\ ev' = "poll_ok"
              /\ writes' = <<>>
              /\ native_value' = native_value
              /\ previous_values' = previous_values
              /\ AllAvailable'
              /\ is_connected' = is_connected
              /\ char_handle' = char_handle
              /\ ~escaped']_vars

\* a poll has read FE 02 after an earlier poll had published 5.0 mph
C15_Witness ==
    /\ variant = "proxy"
    /\ ev = "poll_ok"
    /\ lastFrame = <<254, 2>>
    /\ writes = <<>>
    /\ native_value[SENSOR_SPEED] = Some(50)
    /\ AllAvailable
    /\ char_handle # None

(* C16: _parse_and_update of a frame shorter than 2 bytes (the empty frame
   included) updates no sensor, leaves _previous_values unchanged and
   raises nothing *)
C16_ShortFrameSkipped ==
    [][(ev' \in {"parse", "parse_raised"} /\ Len(lastFrame') < 2) =>
            /\ ev' = "parse"
            /\ writes' = <<>>
            /\ native_value' = native_value
            /\ previous_values' = previous_values]_vars

\* the empty frame was decoded after a frame that had published 5.0 mph
C16_Witness ==
    /\ ev = "parse"
    /\ lastFrame = <<>>
    /\ native_value[SENSOR_SPEED] = Some(50)
    /\ Get(previous_values, SENSOR_SPEED) = Some(50)

(* C17: every update_value call of a step carries a value that differs from
   the value the sensor of that field showed before the step *)
C17_WriteOnlyOnChange ==
    [][\A i \in 1..Len(writes') :
            native_value[writes'[i][1]] # Some(writes'[i][2])]_vars

\* a main telemetry frame: 00 12 and at least 10 bytes
Recognized(data) == Len(data) >= 10 /\ data[1] = 0 /\ data[2] = 18

\* frames a and b differ in their incline bytes (6 and 7) and nowhere else
DifferOnlyInIncline(a, b) ==
    /\ Len(a) = Len(b)
    /\ \A i \in 1..Len(a) : i \notin {7, 8} => a[i] = b[i]
    /\ a[7] # b[7] \/ a[8] # b[8]

(* C18 as stated: when a recognized frame is applied right after a
   recognized frame, no field is flagged as changed if the two are
   identical, and exactly the incline field is flagged if they differ only
   in their incline bytes *)
C18_ChangeDetection ==
    [][(ev' = "parse" /\ Recognized(lastFrame) /\ Recognized(lastFrame')) =>
            /\ (lastFrame' = lastFrame => changed' = {})
            /\ (DifferOnlyInIncline(lastFrame, lastFrame') =>
                    changed' = {SENSOR_INCLINE})]_vars

(* C18 amended: when a recognized frame is applied right after a recognized
   frame, no field is flagged as changed if the two are identical, and
   exactly the incline field is flagged if they differ only in their
   incline bytes and both inclines are within 0..150 tenths of a percent
   (an out-of-range incline is neither tested nor cached) *)
C18_ChangeDetectionInRange ==
    [][(ev' = "parse" /\ Recognized(lastFrame) /\ Recognized(lastFrame')) =>
            /\ (lastFrame' = lastFrame => changed' = {})
            /\ ((DifferOnlyInIncline(lastFrame, lastFrame')
                 /\ lastFrame[7] + 256 * lastFrame[8] <= 150
                 /\ lastFrame'[7] + 256 * lastFrame'[8] <= 150)
                    => changed' = {SENSOR_INCLINE})]_vars

\* 5.0 mph, 3.0 % was decoded with speed and status already cached and
\* another incline in the cache
C18_Witness ==
    /\ ev = "parse"
    /\ lastFrame = <<0, 18, 0, 0, 50, 0, 30, 0, 0, 0>>
    /\ changed = {SENSOR_INCLINE}
    /\ Get(previous_values, SENSOR_INCLINE) = Some(30)

(* C19: the update_value calls made for a frame are those a coordinator
   that has decoded nothing yet would make for it (they depend on the
   frame's bytes only); and applying the frame of the previous call again
   makes the same calls, raises nothing and leaves the sensors and
   _previous_values as the first application left them *)
C19_DecodeIdempotent ==
    /\ [](ev = "parse" =>
            writes = ParseAndUpdate(<<>>, [k \in SensorTypes |-> None],
                                    lastFrame).writes)
    /\ [][(ev = "parse" /\ ev' \in {"parse", "parse_raised"}
           /\ lastFrame' = lastFrame) =>
              /\ ev' = "parse"
              /\ writes' = writes
              /\ native_value' = native_value
              /\ previous_values' = previous_values]_vars

\* 5.0 mph, 3.0 % was decoded again: its three values were published with
\* all of them already in the cache
C19_Witness ==
    /\ ev = "parse"
    /\ lastFrame = <<0, 18, 0, 0, 50, 0, 30, 0, 0, 0>>
    /\ Len(writes) = 3
    /\ changed = {}

(* C20: async_stop raises nothing, whatever is already torn down and
   whether or not a disconnect request fails, and once it has begun the
   interval timer is not armed, so the timer starts no further poll *)
C20_StopIsClean ==
    /\ stop_pc # "raised"
    /\ stop_pc # "idle" => cancel_callback # "armed"

(* C21: a call of async_stop made after an earlier call has completed
   requests no device disconnect from the bridge and raises nothing *)
C21_SecondStopIsNoOp ==
    stop_calls >= 2 => stop_pc \notin {"dev_disconnect", "raised"}

(* C22: the proxy coordinator requests a device connect only when no
   earlier connection is left unreleased: every earlier connect request has
   failed, or the bridge has reported its link down, or a device disconnect
   has been requested for it *)
C22_OneLiveSession ==
    [][\A p \in Polls :
          (pc[p] # "connect" /\ pc'[p] = "connect") => ~session_open]_vars

(* C23: the step in which async_start leaves its start-up phase (it ends, or
   it begins to await its first poll) starts a poll that attempts
   acquisition: after it an execution of _async_poll_treadmill is in flight,
   or one has run and returned for another reason than a missing client or
   address *)
C23_ImmediatePoll ==
    [][(start_pc \in {"init", "login", "device_info", "scan"}
        /\ start_pc' \in {"first_poll", "done", "failed"}) =>
            \/ \E p \in Polls : pc'[p] # "idle"
            \/ ev' \in PollReturnEvents \ {"poll_not_ready"}]_vars

(* C24: the timer's interval after a poll that read a frame without a
   changed field (the idle cadence) is longer than its interval after the
   last poll that had read a frame with a changed field, the first reading
   included (the active cadence) *)
C24_AdaptiveCadence ==
    (ev = "poll_ok" /\ changed = {} /\ cancel_callback = "armed"
     /\ interval_after_change # 0) => interval_after_change < TimerInterval

\* the ways a poll of sensor_polling.py returns after its disconnect, if it
\* had to make one, has returned
BleReturnEvents ==
    {"poll_not_found", "poll_connect_timeout", "poll_connect_error",
     "poll_not_connected", "poll_read_error", "poll_ok"}

(* C25: in sensor_polling.py the step in which a poll returns (after a
   successful read, a failed or timed-out connect, a client that is not
   connected, or a read error) leaves the BleakClient of that poll without a
   connection, and an execution slot has a connection only between the
   return of __aenter__ and the end of __aexit__, so that the next poll
   starts without one *)
C25_PollClosesItsConnection ==
    /\ [][\A p \in Polls :
            (variant = "polling" /\ pc[p] # "idle" /\ pc'[p] = "idle"
             /\ ev' \in BleReturnEvents) => ~ble_session'[p]]_vars
    /\ [][\A p \in Polls :
            (pc[p] \in {"idle", "ble_connect"} /\ ~ble_session[p]
             /\ pc'[p] \in {"idle", "ble_connect"}) => ~ble_session'[p]]_vars

\* a poll of sensor_polling.py has returned after a read error, an earlier
\* one having read a frame, and no execution holds a connection
C25_Witness ==
    /\ variant = "polling"
    /\ ev = "poll_read_error"
    /\ lastFrame # <<>>
    /\ \A p \in Polls : pc[p] = "idle" /\ ~ble_session[p]

\* the timeout the code passes at each suspension point of a poll, in
\* seconds: bluetooth_device_connect(timeout=30.0), wait_for(..., timeout=15.0)
\* and bluetooth_gatt_read(timeout=10.0) in sensor.py,
\* BleakClient(ble_device, timeout=15.0) in sensor_polling.py; None where
\* the call is made without one
ExplicitTimeout(site) ==
    CASE site = "connect" -> Some(30)
      [] site = "wait" -> Some(15)
      [] site = "read" -> Some(10)
      [] site = "ble_connect" -> Some(15)
      [] OTHER -> None

\* the suspension points of a poll up to the read: the connect request, the
\* wait for the connection-state signal, service discovery, the read
AcquisitionSites ==
    {"connect", "wait", "services", "read", "ble_connect", "ble_read"}

(* C26: whenever an execution of _async_poll_treadmill is suspended at its
   connect request, its wait for the connection-state signal, its service
   discovery or its characteristic read, the call it awaits was made with an
   explicit timeout *)
C26_EverySuspensionBounded ==
    \A p \in Polls :
        pc[p] \in AcquisitionSites => ExplicitTimeout(pc[p]) # None

\* the sensors no frame layout is known for
UndecodedSensors == {SENSOR_DISTANCE, SENSOR_TIME, SENSOR_CALORIES}

(* C27: in every reachable state the distance, time and calories sensors
   have no value, no update_value call is made on them and
   _previous_values has no entry for them *)
C27_UndecodedSensorsStayUnset ==
    \A k \in UndecodedSensors :
        /\ native_value[k] = None
        /\ WritesTo(k) = {}
        /\ k \notin DOMAIN previous_values

\* a poll has published speed, incline and status and made all six sensors
\* available: distance, time and calories are available without a value
C27_Witness ==
    /\ ev = "poll_ok"
    /\ Len(writes) = 3
    /\ native_value[SENSOR_SPEED] = Some(50)
    /\ \A k \in UndecodedSensors :
          attr_available[k] = "True" /\ native_value[k] = None

(* C28: in the two proxy coordinators, while the client or the address is
   not set no step issues a connect, service-discovery or read request; and
   the step in which a poll returns at the not-ready test is made from such
   a state, publishes nothing and leaves the sensors' values,
   _previous_values, _is_connected, _char_handle and the availability as
   they were when the poll was called (in sensor.py the start-up poll is
   called right after async_start has marked the sensors unavailable for
   the missing address) *)
C28_NotReadyPollIsNoOp ==
    [][/\ ((variant \in {"proxy", "direct_proxy"}
            /\ (esp_client = "None" \/ treadmill_address = None)) =>
               (pc' = pc /\ readArg' = readArg /\ session_open' = session_open))
       /\ ((ev' = "poll_not_ready") =>
               /\ esp_client = "None" \/ treadmill_address = None
               /\ pc' = pc
               /\ writes' = <<>>
               /\ native_value' = native_value
               /\ previous_values' = previous_values
               /\ is_connected' = is_connected
               /\ char_handle' = char_handle
               /\ attr_available' =
                     IF variant = "proxy" /\ start_pc = "scan"
                     THEN UpdateSensorAvailability(attr_available, "False")
                     ELSE attr_available)]_vars

\* sensor.py after a scan that found no treadmill: the timer is armed and a
\* poll has returned at the not-ready test
C28_Witness ==
    /\ variant = "proxy"
    /\ ev = "poll_not_ready"
    /\ treadmill_address = None
    /\ cancel_callback = "armed"
    /\ \A p \in Polls : pc[p] = "idle"

(* C29: in sensor.py, after a scan that found no treadmill (async_start has
   ended, async_stop was not called, the address is unset) the sensors are
   unavailable, the advertisement callback is still subscribed over a live
   session and the timer is armed; and once the address is set a poll never
   returns at the not-ready test: an execution that starts while not
   connected is started with the address set and issues the connect
   request *)
C29_LateDiscoveryStillAcquires ==
    /\ []((variant = "proxy" /\ start_pc = "done" /\ stop_pc = "idle"
           /\ treadmill_address = None) =>
              (NoneAvailable /\ subscribed /\ loggedIn
               /\ cancel_callback = "armed"))
    /\ [][(variant = "proxy" /\ ev' = "poll_not_ready") =>
              treadmill_address = None]_vars
    /\ [][\A p \in Polls :
             (variant = "proxy" /\ pc[p] = "idle" /\ pc'[p] # "idle"
              /\ ~is_connected) =>
                (treadmill_address # None /\ pc'[p] = "connect")]_vars

\* a poll awaits its connect request after async_start has ended, and no
\* connect request has returned or failed before: the start-up poll had
\* found no address, which an advertisement delivered after the scan has set
C29_Witness ==
    /\ variant = "proxy"
    /\ start_pc = "done"
    /\ pc[1] = "connect"
    /\ treadmill_address # None
    /\ disconnect_callback = "None"
    /\ connect_failures = 0
    /\ NoneAvailable

\* the sensors _parse_and_update publishes
DecodedSensors == {SENSOR_SPEED, SENSOR_INCLINE, SENSOR_STATUS}

(* C30: in every reachable state, for each of speed, incline and status the
   entry of _previous_values and the sensor's value are both unset or are
   equal; _previous_values has no other entries *)
C30_CacheMirrorsPublished ==
    /\ \A k \in DecodedSensors : Get(previous_values, k) = native_value[k]
    /\ DOMAIN previous_values \subseteq DecodedSensors

\* a frame with 5.0 mph and an incline of 15.1 % was decoded after one with
\* 3.0 %: the incline sensor and its cache entry both still hold 3.0 %
C30_Witness ==
    /\ ev = "parse"
    /\ lastFrame = <<0, 18, 0, 0, 50, 0, 151, 0, 0, 0>>
    /\ native_value[SENSOR_INCLINE] = Some(30)
    /\ Get(previous_values, SENSOR_INCLINE) = Some(30)
    /\ Get(previous_values, SENSOR_SPEED) = Some(50)

(* C31: in sensor_direct_proxy.py no sensor ever has a value, no entry is
   ever cached, no frame is ever decoded, no sensor's availability is ever
   set to true and no execution of the poll is ever suspended; and every
   poll that runs while the client and the address are set returns at the
   placeholder with all sensors unavailable *)
C31_PlaceholderNeverPublishes ==
    /\ [](variant = "direct_proxy" =>
              /\ \A k \in SensorTypes :
                    native_value[k] = None /\ attr_available[k] # "True"
              /\ DOMAIN previous_values = {}
              /\ writes = <<>>
              /\ lastFrame = <<>>
              /\ \A p \in Polls : pc[p] = "idle")
    /\ [][(/\ variant = "direct_proxy"
           /\ esp_client # "None"
           /\ treadmill_address # None
           /\ \/ start_pc = "scan" /\ start_pc' = "done"
              \/ ev' \in PollReturnEvents) =>
              (NoneAvailable' /\ ev' = "poll_placeholder")]_vars

\* the placeholder poll has run with the client and the address set, the
\* timer is armed: the sensors are unavailable and have no value
C31_Witness ==
    /\ variant = "direct_proxy"
    /\ start_pc = "done"
    /\ cancel_callback = "armed"
    /\ ev = "poll_placeholder"
    /\ esp_client # "None"
    /\ treadmill_address # None
    /\ NoneAvailable
    /\ \A k \in SensorTypes : native_value[k] = None

=============================================================================
